---- MODULE Spec2Model ----
(***************************************************************************)
(* Model of the AliyunCensor plugin (src/main.py): the two event hooks     *)
(* input_censor / output_censor, the orchestrator _check_text, the         *)
(* splitter _split_text and the per-segment check _check_single_text.      *)
(*                                                                         *)
(* Strings are sequences of Unicode code points.  Python values that may   *)
(* be None are records [kind |-> "str" | "none", str |-> <<...>>].         *)
(***************************************************************************)
EXTENDS Integers, Sequences, FiniteSets, TLC

VARIABLES
    self,             \* the plugin object: fields set by __init__
    hook,             \* which handler is running: "none", "input", "output"
    hookpc,           \* position of the handler: "idle", "awaiting", "done"
    event,            \* the AstrMessageEvent delivered to the handler
    emitted,          \* results the input handler has yielded for the event
    completion_text,  \* response.completion_text of the LLMResponse
    response0,        \* history: the completion text the response had when
                      \* output_censor was called
    pc,               \* position of _check_text: "idle","start","single","gather","done"
    content,          \* argument of the running _check_text call
    chunks,           \* local variable chunks of _check_text
    tasks,            \* the _check_single_text coroutines of the call
    requests,         \* every session.post(...) the call has made, in order
    returned,         \* _check_text has returned a value
    raised,           \* _check_text has let an exception escape
    result,           \* the value _check_text returned
    signer,           \* one run of lines 60-93 taken statement by statement
    calls             \* _check_text calls that run at the same time

vars == <<self, hook, hookpc, event, emitted, completion_text, response0,
          pc, content, chunks, tasks, requests, returned, raised, result,
          signer, calls>>

(***************************************************************************)
(* Bounds of the model.                                                    *)
(***************************************************************************)
MaxLen == 1201

(***************************************************************************)
(* Program constants.                                                      *)
(***************************************************************************)
ChunkSize == 600
SingleLimit == 600
HttpOk == 200

\* "用户输入不合法"
InputRejection == <<29992, 25143, 36755, 20837, 19981, 21512, 27861>>
\* "模型输出不合法"
OutputRejection == <<27169, 22411, 36755, 20986, 19981, 21512, 27861>>
\* "high"
HighLevel == <<104, 105, 103, 104>>

(***************************************************************************)
(* Python values.                                                          *)
(***************************************************************************)
PyNone == [kind |-> "none", str |-> <<>>]
Str(s) == [kind |-> "str", str |-> s]

\* str(x): a str is returned as it is, None becomes the text "None".
PyStr(v) == IF v.kind = "none" THEN <<78, 111, 110, 101>> ELSE v.str

\* Faulty variant of Falsy: no text counts as empty.
Falsy_Never(s) == FALSE
\* not x, for a str x
Falsy(s) == s = <<>>

\* str.lower() on the ASCII range (the only range the comparison with
\* "high" can depend on).
LowerChar(c) == IF c >= 65 /\ c <= 90 THEN c + 32 ELSE c
\* Faulty variant of Lower: the letter case is kept.
Lower_Identity(s) == s
Lower(s) == [i \in 1..Len(s) |-> LowerChar(s[i])]

(***************************************************************************)
(* Inputs: texts, configurations, responses.                               *)
(***************************************************************************)
TextOfLen(n) == [i \in 1..n |-> 97 + ((i + (i \div 26)) % 26)]

TextLens == {0, 1, SingleLimit, SingleLimit + 1, 2 * ChunkSize, MaxLen}

Texts == {TextOfLen(n) : n \in TextLens}
           \cup {InputRejection, <<34, 92, 10>>}

Secrets == {Str(<<115, 107>>), PyNone}

Configs == [input_active : BOOLEAN, output_active : BOOLEAN,
            endpoint : {Str(<<104, 116, 116, 112>>)},
            access_key_id : {Str(<<105, 100>>)},
            access_key_secret : Secrets]

\* RiskLevel values of a response: strings, null, a number.
\* "high", "High", "HIGH", "medium"
RiskStrings == {HighLevel, <<72, 105, 103, 104>>, <<72, 73, 71, 72>>,
                <<109, 101, 100, 105, 117, 109>>}
JsonNull == [kind |-> "null", str |-> <<>>]
RiskValues == {Str(s) : s \in RiskStrings} \cup {JsonNull}

\* The value of the "Data" member.
DataObject(keys, risk) == [kind |-> "object", keys |-> keys, RiskLevel |-> risk]
DataNull == [kind |-> "null", keys |-> {}, RiskLevel |-> JsonNull]
DataValues == {DataObject({"RiskLevel"}, r) : r \in RiskValues}
                \cup {DataObject({}, JsonNull), DataNull}

\* A response body as response.json() sees it.  keys is the set of x for
\* which the Python test  x in result  is true.
Body(json, keys, data) == [json |-> json, keys |-> keys, Data |-> data]
AllowBody == Body("object", {"Data"},
                  DataObject({"RiskLevel"}, Str(<<109, 101, 100, 105, 117, 109>>)))
Bodies == {Body("object", {"Data"}, d) : d \in DataValues}
            \cup {Body("object", {"foo", "RiskLevel"}, DataNull),
                  Body("list", {"Data"}, DataNull),
                  Body("null", {}, DataNull),
                  Body("invalid", {}, DataNull)}

\* What happens to one posted request.
Response(status, body) ==
    [kind |-> "response", exc |-> "", status |-> status, body |-> body]
Error(exc) ==
    [kind |-> "error", exc |-> exc, status |-> 0, body |-> Body("invalid", {}, DataNull)]
NoOutcome ==
    [kind |-> "none", exc |-> "", status |-> 0, body |-> Body("invalid", {}, DataNull)]

Outcomes == {Response(HttpOk, b) : b \in Bodies}
              \cup {Response(500, AllowBody)}
              \cup {Error("ClientError"), Error("Exception")}

(***************************************************************************)
(* String helpers.                                                         *)
(***************************************************************************)
RECURSIVE FlattenRange(_, _, _)
FlattenRange(ss, lo, hi) ==
    IF lo > hi THEN <<>>
    ELSE IF lo = hi THEN ss[lo]
    ELSE LET mid == (lo + hi) \div 2
         IN  FlattenRange(ss, lo, mid) \o FlattenRange(ss, mid + 1, hi)

\* "".join(ss)
Flatten(ss) == FlattenRange(ss, 1, Len(ss))

RECURSIVE SumRange(_, _, _)
SumRange(f, lo, hi) ==
    IF lo > hi THEN 0
    ELSE IF lo = hi THEN f[lo]
    ELSE LET mid == (lo + hi) \div 2
         IN  SumRange(f, lo, mid) + SumRange(f, mid + 1, hi)

\* s.replace(old, new)
RECURSIVE Replace(_, _, _)
Replace(s, old, new) ==
    IF Len(s) < Len(old) THEN s
    ELSE IF SubSeq(s, 1, Len(old)) = old
         THEN new \o Replace(SubSeq(s, Len(old) + 1, Len(s)), old, new)
         ELSE <<s[1]>> \o Replace(Tail(s), old, new)

\* Python's order on str: code point by code point, a proper prefix first.
RECURSIVE StrLess(_, _)
StrLess(a, b) ==
    IF b = <<>> THEN FALSE
    ELSE IF a = <<>> THEN TRUE
    ELSE IF a[1] # b[1] THEN a[1] < b[1]
    ELSE StrLess(Tail(a), Tail(b))

HexLower == <<48, 49, 50, 51, 52, 53, 54, 55, 56, 57, 97, 98, 99, 100, 101, 102>>
HexUpper == <<48, 49, 50, 51, 52, 53, 54, 55, 56, 57, 65, 66, 67, 68, 69, 70>>

\* s.encode("utf-8") of one code point
Utf8Char(c) ==
    IF c < 128 THEN <<c>>
    ELSE IF c < 2048 THEN <<192 + (c \div 64), 128 + (c % 64)>>
    ELSE IF c < 65536
         THEN <<224 + (c \div 4096), 128 + ((c \div 64) % 64), 128 + (c % 64)>>
    ELSE <<240 + (c \div 262144), 128 + ((c \div 4096) % 64),
           128 + ((c \div 64) % 64), 128 + (c % 64)>>

Utf8(s) == Flatten([i \in 1..Len(s) |-> Utf8Char(s[i])])

(***************************************************************************)
(* json.dumps({"content": content})   (line 70)                            *)
(***************************************************************************)
JsonU(c) == <<92, 117, HexLower[((c \div 4096) % 16) + 1], HexLower[((c \div 256) % 16) + 1],
              HexLower[((c \div 16) % 16) + 1], HexLower[(c % 16) + 1]>>

\* Faulty variant of JsonEscapeChar: nothing is escaped.
JsonEscapeChar_Raw(c) == <<c>>
JsonEscapeChar(c) ==
    IF c = 34 THEN <<92, 34>>
    ELSE IF c = 92 THEN <<92, 92>>
    ELSE IF c = 10 THEN <<92, 110>>
    ELSE IF c = 13 THEN <<92, 114>>
    ELSE IF c = 9 THEN <<92, 116>>
    ELSE IF c = 12 THEN <<92, 102>>
    ELSE IF c = 8 THEN <<92, 98>>
    ELSE IF c >= 32 /\ c <= 126 THEN <<c>>
    ELSE IF c < 65536 THEN JsonU(c)
    ELSE JsonU(55296 + ((c - 65536) \div 1024)) \o JsonU(56320 + ((c - 65536) % 1024))

\* {"content": "<escaped>"}
JsonDumpsContent(c) ==
    <<123, 34, 99, 111, 110, 116, 101, 110, 116, 34, 58, 32, 34>>
      \o Flatten([i \in 1..Len(c) |-> JsonEscapeChar(c[i])])
      \o <<34, 125>>

(***************************************************************************)
(* encode_a   (lines 75-76)                                                *)
(***************************************************************************)
IsUnreserved(c) ==
    \/ c >= 48 /\ c <= 57
    \/ c >= 65 /\ c <= 90
    \/ c >= 97 /\ c <= 122
    \/ c \in {95, 46, 45, 126}

PercentByte(b) == <<37, HexUpper[(b \div 16) + 1], HexUpper[(b % 16) + 1]>>

\* quote_plus of one character
QuotePlusChar(c) ==
    IF IsUnreserved(c) THEN <<c>>
    ELSE IF c = 32 THEN <<43>>
    ELSE LET bs == Utf8Char(c)
         IN  Flatten([i \in 1..Len(bs) |-> PercentByte(bs[i])])

\* quote_plus(...).replace("+", "%20").replace("*", "%2A").replace("%7E", "~"),
\* one character of the input at a time: no replaced pattern spans the
\* encodings of two characters.
EncodeChar(c) ==
    Replace(Replace(Replace(QuotePlusChar(c), <<43>>, <<37, 50, 48>>),
                    <<42>>, <<37, 50, 65>>),
            <<37, 55, 69>>, <<126>>)

encode_a(s) == Flatten([i \in 1..Len(s) |-> EncodeChar(s[i])])

(***************************************************************************)
(* Request parameters and their signature   (lines 60-90)                  *)
(***************************************************************************)
\* "Format"
K_Format == <<70, 111, 114, 109, 97, 116>>
\* "Version"
K_Version == <<86, 101, 114, 115, 105, 111, 110>>
\* "AccessKeyId"
K_AccessKeyId == <<65, 99, 99, 101, 115, 115, 75, 101, 121, 73, 100>>
\* "SignatureMethod"
K_SignatureMethod == <<83, 105, 103, 110, 97, 116, 117, 114, 101, 77, 101, 116, 104, 111, 100>>
\* "Timestamp"
K_Timestamp == <<84, 105, 109, 101, 115, 116, 97, 109, 112>>
\* "SignatureVersion"
K_SignatureVersion == <<83, 105, 103, 110, 97, 116, 117, 114, 101, 86, 101, 114, 115, 105, 111, 110>>
\* "SignatureNonce"
K_SignatureNonce == <<83, 105, 103, 110, 97, 116, 117, 114, 101, 78, 111, 110, 99, 101>>
\* "Action"
K_Action == <<65, 99, 116, 105, 111, 110>>
\* "Service"
K_Service == <<83, 101, 114, 118, 105, 99, 101>>
\* "ServiceParameters"
K_ServiceParameters == <<83, 101, 114, 118, 105, 99, 101, 80, 97, 114, 97, 109, 101, 116, 101, 114, 115>>
\* "Signature"
K_Signature == <<83, 105, 103, 110, 97, 116, 117, 114, 101>>
\* "JSON"
V_Format == <<74, 83, 79, 78>>
\* "2022-03-02"
V_Version == <<50, 48, 50, 50, 45, 48, 51, 45, 48, 50>>
\* "HMAC-SHA1"
V_SignatureMethod == <<72, 77, 65, 67, 45, 83, 72, 65, 49>>
\* "1.0"
V_SignatureVersion == <<49, 46, 48>>
\* "TextModerationPlus"
V_Action == <<84, 101, 120, 116, 77, 111, 100, 101, 114, 97, 116, 105, 111, 110, 80, 108, 117, 115>>
\* "chat_detection_pro"
V_Service == <<99, 104, 97, 116, 95, 100, 101, 116, 101, 99, 116, 105, 111, 110, 95, 112, 114, 111>>

\* datetime.now(timezone.utc).strftime("%Y-%m-%dT%H:%M:%SZ"): "2024-01-01T00:00:00Z"
Timestamps == {<<50, 48, 50, 52, 45, 48, 49, 45, 48, 49, 84, 48, 48, 58, 48, 48, 58, 48, 48, 90>>}

\* str(uuid.uuid4()): a value no earlier request of the call carries
Uuid(n) == <<117, 48 + n>>

\* The dict params_a as the sequence of its items, in insertion order.
params_a(me, segment, timestamp, nonce) ==
    << <<K_Format, Str(V_Format)>>,
       <<K_Version, Str(V_Version)>>,
       <<K_AccessKeyId, me.access_key_id>>,
       <<K_SignatureMethod, Str(V_SignatureMethod)>>,
       <<K_Timestamp, Str(timestamp)>>,
       <<K_SignatureVersion, Str(V_SignatureVersion)>>,
       <<K_SignatureNonce, Str(nonce)>>,
       <<K_Action, Str(V_Action)>>,
       <<K_Service, Str(V_Service)>>,
       <<K_ServiceParameters, Str(JsonDumpsContent(segment))>> >>

Items(params) == {params[i] : i \in 1..Len(params)}

\* Faulty variant of sorted_params: the items stay in insertion order.
sorted_params_Unsorted(params) == params
\* sorted(params_a.items()): the keys of a dict are distinct, so the order
\* of the items is the order of their keys.
sorted_params(params) ==
    [i \in 1..Len(params) |->
        CHOOSE it \in Items(params) :
            Cardinality({o \in Items(params) : StrLess(o[1], it[1])}) = i - 1]

\* "&".join(f"{encode_a(k)}={encode_a(v)}" for k, v in sorted_params)
canonicalized_query(sorted) ==
    Flatten([i \in 1..Len(sorted) |->
        (IF i = 1 THEN <<>> ELSE <<38>>)
          \o encode_a(sorted[i][1]) \o <<61>> \o encode_a(PyStr(sorted[i][2]))])

\* f"POST&{encode_a('/')}&{encode_a(canonicalized_query)}"
string_to_sign(query) ==
    <<80, 79, 83, 84, 38>> \o encode_a(<<47>>) \o <<38>> \o encode_a(query)

\* hmac.new(key, msg, hashlib.sha1).digest(), abstracted to a two-byte keyed
\* digest: a function of the bytes of the key and of the message only.
HmacDigest(key, msg) ==
    LET bytes == key \o <<0>> \o msg
        h == SumRange([i \in 1..Len(bytes) |-> ((i % 251) + 1) * bytes[i]],
                      1, Len(bytes)) % 65521
    IN  <<h \div 256, h % 256>>

Base64Alphabet ==
    <<65, 66, 67, 68, 69, 70, 71, 72, 73, 74, 75, 76, 77, 78, 79, 80, 81, 82,
      83, 84, 85, 86, 87, 88, 89, 90, 97, 98, 99, 100, 101, 102, 103, 104, 105,
      106, 107, 108, 109, 110, 111, 112, 113, 114, 115, 116, 117, 118, 119,
      120, 121, 122, 48, 49, 50, 51, 52, 53, 54, 55, 56, 57, 43, 47>>

\* base64.b64encode(bytes).decode("utf-8")
Base64Group(bs) ==
    LET b1 == bs[1]
        b2 == IF Len(bs) >= 2 THEN bs[2] ELSE 0
        b3 == IF Len(bs) >= 3 THEN bs[3] ELSE 0
    IN  << Base64Alphabet[(b1 \div 4) + 1],
           Base64Alphabet[((b1 % 4) * 16 + (b2 \div 16)) + 1],
           IF Len(bs) >= 2 THEN Base64Alphabet[((b2 % 16) * 4 + (b3 \div 64)) + 1] ELSE 61,
           IF Len(bs) >= 3 THEN Base64Alphabet[(b3 % 64) + 1] ELSE 61 >>

Base64(bs) ==
    Flatten([g \in 1..((Len(bs) + 2) \div 3) |->
        Base64Group(SubSeq(bs, 3 * g - 2, IF 3 * g <= Len(bs) THEN 3 * g ELSE Len(bs)))])

\* Faulty variant of SigningKey: the "&" is left out.
SigningKey_Bare(secret) == secret
\* key = self.access_key_secret + "&"   (line 81), for a secret that is a str
SigningKey(secret) == secret \o <<38>>

\* Faulty variant of CanConcat: an empty secret is refused as well.
CanConcat_NonEmpty(secret) == secret.kind = "str" /\ secret.str # <<>>
\* self.access_key_secret + "&" is defined for a str only; for any other
\* value line 81 raises TypeError.
CanConcat(secret) == secret.kind = "str"

\* Lines 82-88
SignatureOf(key, message) == Base64(HmacDigest(Utf8(key), message))

\* Lines 73-88 for a secret that is a str.
Signature(secret, params) ==
    SignatureOf(SigningKey(secret),
                string_to_sign(canonicalized_query(sorted_params(params))))

\* Faulty variant of with_signature: the signature takes the place of the
\* last parameter.
with_signature_Overwrite(params, signature) ==
    [params EXCEPT ![Len(params)] = <<K_Signature, Str(signature)>>]
\* params_a["Signature"] = signature   (line 90)
with_signature(params, signature) == Append(params, <<K_Signature, Str(signature)>>)

(***************************************************************************)
(* _split_text   (lines 48-55)                                             *)
(***************************************************************************)
\* Faulty variant of Range0: a last partial step is dropped.
Range0_Floor(stop, step) == [k \in 1..(stop \div step) |-> (k - 1) * step]
\* list(range(0, stop, step)), as the sequence of its values
Range0(stop, step) == [k \in 1..((stop + step - 1) \div step) |-> (k - 1) * step]

\* s[lo:hi] for 0 <= lo <= hi
Slice(s, lo, hi) == SubSeq(s, lo + 1, IF hi <= Len(s) THEN hi ELSE Len(s))

_split_text(text) ==
    IF Falsy(text) THEN <<>>
    ELSE LET starts == Range0(Len(text), ChunkSize)
         IN  [k \in 1..Len(starts) |-> Slice(text, starts[k], starts[k] + ChunkSize)]

(***************************************************************************)
(* _check_single_text   (lines 57-111)                                     *)
(***************************************************************************)
Return(v) == [tag |-> "return", val |-> v, exc |-> ""]
Raise(e) == [tag |-> "raise", val |-> FALSE, exc |-> e]

\* The value returned by the handler of aiohttp.ClientError (line 108)
OnClientError == FALSE
\* Faulty variant of OnException: the handler lets the text through.
OnException_Open == TRUE
\* The value returned by the handler of Exception (line 111)
OnException == FALSE

\* Faulty variant of StatusIsError: the status is not looked at.
StatusIsError_Never(status) == FALSE
\* response.status != 200   (line 94)
StatusIsError(status) == status # HttpOk

\* risk_level != "high"   (line 104)
RiskVerdict(risk_level) == risk_level # HighLevel

\* The body of the two  async with  blocks once the request is on its way
\* (lines 92-104): what it returns or raises for each outcome of the request.
ResponseBody(o) ==
    IF o.kind = "error" THEN Raise(o.exc)
    ELSE IF StatusIsError(o.status) THEN Return(FALSE)
    ELSE IF o.body.json = "invalid" THEN Raise("JSONDecodeError")
    ELSE IF o.body.json = "null" THEN Raise("TypeError")
    ELSE IF "Data" \notin o.body.keys THEN Return(FALSE)
    ELSE IF o.body.json # "object" THEN Raise("TypeError")
    ELSE IF o.body.Data.kind # "object" THEN Raise("AttributeError")
    ELSE LET risk == IF "RiskLevel" \in o.body.Data.keys
                     THEN o.body.Data.RiskLevel ELSE Str(<<>>)
         IN  IF risk.kind # "str" THEN Raise("AttributeError")
             ELSE Return(RiskVerdict(Lower(risk.str)))

\* The except clauses (lines 106-111).
SingleHandlers(r) ==
    IF r.tag # "raise" THEN r
    ELSE IF r.exc = "ClientError" THEN Return(OnClientError)
    ELSE Return(OnException)

NewTask(segment) ==
    [content |-> segment, pc |-> "created", outcome |-> NoOutcome, verdict |-> FALSE]

\* Faulty variant of Finish: a segment whose check failed is tried again.
Finish_Retry(task, o, r) ==
    [task EXCEPT !.pc = IF r.tag = "return" /\ r.val THEN "done"
                        ELSE IF o.kind = "error" THEN "created" ELSE "done",
                 !.outcome = o,
                 !.verdict = r.val]
\* The coroutine ends with what r says: a returned verdict or an exception.
Finish(task, o, r) ==
    [task EXCEPT !.pc = IF r.tag = "return" THEN "done" ELSE "raised",
                 !.outcome = o,
                 !.verdict = r.val]

\* Faulty variant of MayStart: a coroutine starts when the ones before it
\* have ended.
MayStart_Sequential(ts, i) == \A j \in 1..(i - 1) : ts[j].pc \in {"done", "raised"}
\* The coroutines given to gather (line 124) are started one after the
\* other, each running up to its first suspension, the POST of line 93.
MayStart(ts, i) == \A j \in 1..(i - 1) : ts[j].pc # "created"

\* The coroutine of segment i can take its first step.
CanStart(i) ==
    /\ pc \in {"single", "gather"}
    /\ i \in DOMAIN tasks
    /\ tasks[i].pc = "created"
    /\ MayStart(tasks, i)

\* Lines 59-93: build and sign the parameters, then post them.  A secret
\* that is not a str makes line 81 raise TypeError before anything is sent.
\* The coroutines take their first step in the order gather was given them
\* (the event loop runs ready callbacks first in, first out).
SignAndPost(i) ==
    /\ CanStart(i)
    /\ \E timestamp \in Timestamps :
         LET nonce == Uuid(Len(requests) + 1)
             params == params_a(self, tasks[i].content, timestamp, nonce)
         IN  IF ~CanConcat(self.access_key_secret)
             THEN /\ tasks' = [tasks EXCEPT ![i] =
                         Finish(@, Error("TypeError"), SingleHandlers(Raise("TypeError")))]
                  /\ UNCHANGED requests
             ELSE /\ requests' = Append(requests,
                         [task |-> i,
                          endpoint |-> self.endpoint,
                          params |-> with_signature(params,
                              Signature(self.access_key_secret.str, params))])
                  /\ tasks' = [tasks EXCEPT ![i].pc = "posted"]
    /\ UNCHANGED <<self, signer, calls, hook, hookpc, event, emitted, completion_text,
                   response0, pc, content, chunks, returned, raised, result>>

\* Lines 93-111: the posted request of task i ends with outcome o.
Respond(i, o) ==
    /\ pc \in {"single", "gather"}
    /\ i \in DOMAIN tasks
    /\ tasks[i].pc = "posted"
    /\ tasks' = [tasks EXCEPT ![i] = Finish(@, o, SingleHandlers(ResponseBody(o)))]
    /\ UNCHANGED <<self, signer, calls, hook, hookpc, event, emitted, completion_text,
                   response0, pc, content, chunks, requests, returned, raised,
                   result>>

(***************************************************************************)
(* _check_text   (lines 113-127)                                           *)
(***************************************************************************)
\* The value returned by the handler of Exception (line 127)
OnCheckTextException == FALSE

\* Lines 126-127
CheckTextHandler(r) ==
    IF r.tag = "raise" THEN Return(OnCheckTextException) ELSE r

\* The call _check_text(text) is entered: nothing of it has run yet.
EnterCheckText(text) ==
    /\ pc' = "start"
    /\ content' = text
    /\ chunks' = <<>>
    /\ tasks' = <<>>
    /\ requests' = <<>>
    /\ returned' = FALSE
    /\ raised' = FALSE
    /\ result' = FALSE

\* No _check_text call is made for the event.
NoCheckText ==
    /\ pc' = "idle"
    /\ content' = <<>>
    /\ chunks' = <<>>
    /\ tasks' = <<>>
    /\ requests' = <<>>
    /\ returned' = FALSE
    /\ raised' = FALSE
    /\ result' = FALSE

\* _check_text ends with what r says.
LeaveCheckText(r) ==
    /\ pc' = "done"
    /\ returned' = (r.tag = "return")
    /\ raised' = (r.tag = "raise")
    /\ result' = r.val

\* Lines 116-123: the empty text returns at once, a text of at most 600
\* characters is awaited as one segment, a longer one is split and one
\* coroutine is made per chunk.
CheckTextStart ==
    /\ pc = "start"
    /\ IF Falsy(content)
       THEN /\ LeaveCheckText(CheckTextHandler(Return(TRUE)))
            /\ UNCHANGED <<chunks, tasks>>
       ELSE IF Len(content) <= SingleLimit
       THEN /\ pc' = "single"
            /\ tasks' = <<NewTask(content)>>
            /\ UNCHANGED <<chunks, returned, raised, result>>
       ELSE /\ pc' = "gather"
            /\ chunks' = _split_text(content)
            /\ tasks' = [k \in 1..Len(chunks') |-> NewTask(chunks'[k])]
            /\ UNCHANGED <<returned, raised, result>>
    /\ UNCHANGED <<self, signer, calls, hook, hookpc, event, emitted, completion_text,
                   response0, content, requests>>

\* Faulty variant of SingleReady: the await gives up on a request that is
\* outstanding, as under a deadline.
SingleReady_Timeout(ts) == ts[1].pc # "created"
\* await self._check_single_text(content): the coroutine has ended
SingleReady(ts) == ts[1].pc \in {"done", "raised"}

\* Line 120: return await self._check_single_text(content)
ReturnSingle ==
    /\ pc = "single"
    /\ SingleReady(tasks)
    /\ LeaveCheckText(CheckTextHandler(
           IF tasks[1].pc = "raised" THEN Raise("Exception")
           ELSE Return(tasks[1].verdict)))
    /\ UNCHANGED <<self, signer, calls, hook, hookpc, event, emitted, completion_text,
                   response0, content, chunks, tasks, requests>>

\* Faulty variant of GatherReady: the first false verdict ends the wait.
GatherReady_FirstFalse(ts) ==
    \/ \A i \in DOMAIN ts : ts[i].pc = "done"
    \/ \E i \in DOMAIN ts : ts[i].pc = "raised"
    \/ \E i \in DOMAIN ts : ts[i].pc = "done" /\ ~ts[i].verdict
\* asyncio.gather(*tasks) without return_exceptions: it completes when every
\* task has returned, or as soon as one task has raised.
GatherReady(ts) ==
    \/ \A i \in DOMAIN ts : ts[i].pc = "done"
    \/ \E i \in DOMAIN ts : ts[i].pc = "raised"

\* Faulty variant of All: one true verdict is enough.
All_Any(results) == \E i \in DOMAIN results : results[i]
\* all(results)
All(results) == \A i \in DOMAIN results : results[i]

\* Lines 124-125
GatherReturn ==
    /\ pc = "gather"
    /\ GatherReady(tasks)
    /\ LeaveCheckText(CheckTextHandler(
           IF \E i \in DOMAIN tasks : tasks[i].pc = "raised" THEN Raise("Exception")
           ELSE Return(All([i \in DOMAIN tasks |-> tasks[i].verdict]))))
    /\ UNCHANGED <<self, signer, calls, hook, hookpc, event, emitted, completion_text,
                   response0, content, chunks, tasks, requests>>

(***************************************************************************)
(* The hooks   (lines 31-46)                                               *)
(***************************************************************************)
Events == [message_str : {Str(t) : t \in Texts},
           is_at_or_wake_command : BOOLEAN]

NoEvent == [message_str |-> Str(<<>>), is_at_or_wake_command |-> FALSE]

CompletionTexts == {Str(t) : t \in Texts \cup {OutputRejection}} \cup {PyNone}

HandlerFree == hookpc = "idle"

\* Faulty variant of InputEnabled: the flag of the other hook is read.
InputEnabled_Swapped(me) == me.output_active
\* if self.input_active   (line 34)
InputEnabled(me) == me.input_active

\* Faulty variant of OutputEnabled: the flag of the other hook is read.
OutputEnabled_Swapped(me) == me.input_active
\* if self.output_active   (line 43)
OutputEnabled(me) == me.output_active

\* Faulty variant of InputBlocked: the test is inverted.
InputBlocked_Inverted(verdict) == verdict
\* not await self._check_text(...)   (line 37)
InputBlocked(verdict) == ~verdict

\* Faulty variant of OutputBlocked: the test is inverted.
OutputBlocked_Inverted(verdict) == verdict
\* not await self._check_text(...)   (line 45)
OutputBlocked(verdict) == ~verdict

\* Lines 34-37: the host calls input_censor with event e.
input_censor(e) ==
    /\ HandlerFree
    /\ hook' = "input"
    /\ event' = e
    /\ emitted' = <<>>
    /\ completion_text' = PyNone
    /\ response0' = PyNone
    /\ IF InputEnabled(self) /\ e.is_at_or_wake_command
       THEN /\ EnterCheckText(PyStr(e.message_str))
            /\ hookpc' = "awaiting"
       ELSE /\ NoCheckText
            /\ hookpc' = "done"
    /\ UNCHANGED <<self, signer, calls>>

\* Lines 37-38: _check_text has ended.
InputCensorResume ==
    /\ hook = "input"
    /\ hookpc = "awaiting"
    /\ pc = "done"
    /\ hookpc' = "done"
    /\ emitted' = IF returned /\ InputBlocked(result)
                  THEN Append(emitted, InputRejection) ELSE emitted
    /\ UNCHANGED <<self, signer, calls, hook, event, completion_text, response0, pc, content,
                   chunks, tasks, requests, returned, raised, result>>

\* Lines 43-45: the host calls output_censor with a response whose
\* completion text is text.
output_censor(text) ==
    /\ HandlerFree
    /\ hook' = "output"
    /\ event' = NoEvent
    /\ emitted' = <<>>
    /\ completion_text' = text
    /\ response0' = text
    /\ IF OutputEnabled(self)
       THEN /\ EnterCheckText(PyStr(text))
            /\ hookpc' = "awaiting"
       ELSE /\ NoCheckText
            /\ hookpc' = "done"
    /\ UNCHANGED <<self, signer, calls>>

\* Lines 45-46: _check_text has ended.
OutputCensorResume ==
    /\ hook = "output"
    /\ hookpc = "awaiting"
    /\ pc = "done"
    /\ hookpc' = "done"
    /\ completion_text' = IF returned /\ OutputBlocked(result)
                          THEN Str(OutputRejection) ELSE completion_text
    /\ UNCHANGED <<self, signer, calls, hook, event, emitted, response0, pc, content, chunks,
                   tasks, requests, returned, raised, result>>

\* The handler has ended: the host is done with the event, and the locals
\* of the call are gone.
HandlerReturn ==
    /\ hookpc = "done"
    /\ hook' = "none"
    /\ hookpc' = "idle"
    /\ event' = NoEvent
    /\ emitted' = <<>>
    /\ completion_text' = PyNone
    /\ response0' = PyNone
    /\ NoCheckText
    /\ UNCHANGED <<self, signer, calls>>

(***************************************************************************)
(* The specification of the plugin: one handler at a time.                 *)
(***************************************************************************)
NoSigner ==
    [pc |-> "idle", segment |-> <<>>, timestamp |-> <<>>, nonce |-> <<>>,
     order |-> <<>>, params |-> <<>>, sorted |-> <<>>, query |-> <<>>,
     signature |-> <<>>, posted |-> <<>>]

NoCalls == <<>>

\* __init__ (lines 22-29): the fields are read from the configuration.
Init ==
    /\ self \in Configs
    /\ hook = "none"
    /\ hookpc = "idle"
    /\ event = NoEvent
    /\ emitted = <<>>
    /\ completion_text = PyNone
    /\ response0 = PyNone
    /\ pc = "idle"
    /\ content = <<>>
    /\ chunks = <<>>
    /\ tasks = <<>>
    /\ requests = <<>>
    /\ returned = FALSE
    /\ raised = FALSE
    /\ result = FALSE
    /\ signer = NoSigner
    /\ calls = NoCalls

Next ==
    \/ \E e \in Events : input_censor(e)
    \/ InputCensorResume
    \/ \E t \in CompletionTexts : output_censor(t)
    \/ OutputCensorResume
    \/ CheckTextStart
    \/ \E i \in 1..Len(tasks) : SignAndPost(i)
    \/ \E i \in 1..Len(tasks) : \E o \in Outcomes : Respond(i, o)
    \/ ReturnSingle
    \/ GatherReturn
    \/ HandlerReturn

Spec == Init /\ [][Next]_vars

\* The event loop runs every coroutine that is ready, and every request
\* that was posted ends, with a response or with an error.  The fairness of
\* SignAndPost is written out, CanStart(i) being what enables SignAndPost(i).
Fairness ==
    /\ WF_vars(CheckTextStart)
    /\ (<>[](\E i \in 1..Len(tasks) : CanStart(i)))
          => []<><<\E i \in 1..Len(tasks) : SignAndPost(i)>>_vars
    /\ WF_vars(\E i \in 1..Len(tasks) : \E o \in Outcomes : Respond(i, o))
    /\ WF_vars(ReturnSingle)
    /\ WF_vars(GatherReturn)

SpecLive == Spec /\ Fairness

TypeOK ==
    /\ self \in Configs
    /\ hook \in {"none", "input", "output"}
    /\ hookpc \in {"idle", "awaiting", "done"}
    /\ pc \in {"idle", "start", "single", "gather", "done"}
    /\ returned \in BOOLEAN /\ raised \in BOOLEAN /\ result \in BOOLEAN

(***************************************************************************)
(* The signing of one request (lines 60-93), statement by statement, for   *)
(* credentials, segments, timestamps and nonces of every kind.  The items  *)
(* of params_a are taken in the insertion order of the dict literal and in *)
(* other orders, for what lines 73-79 make of them.                        *)
(***************************************************************************)
mainvars == <<hook, hookpc, event, emitted, completion_text, response0,
              pc, content, chunks, tasks, requests, returned, raised, result>>

\* "id", "a b*~/+", ""
SignKeyIds == {Str(<<105, 100>>), Str(<<97, 32, 98, 42, 126, 47, 43>>), Str(<<>>)}
\* "sk", "", "s&k=é", None
SignSecrets == {Str(<<115, 107>>), Str(<<>>), Str(<<115, 38, 107, 61, 233>>), PyNone}

SignConfigs == [input_active : {TRUE}, output_active : {TRUE},
                endpoint : {Str(<<104, 116, 116, 112>>)},
                access_key_id : SignKeyIds,
                access_key_secret : SignSecrets]

\* "a", the text  "\<newline> , "用户输入不合法", "a b+c*~%"
SignTexts == {<<97>>, <<34, 92, 10>>, InputRejection,
              <<97, 32, 98, 43, 99, 42, 126, 37>>}

\* "2024-01-01T00:00:00Z", "2024-01-01T00:00:01Z"
SignTimestamps ==
    {<<50, 48, 50, 52, 45, 48, 49, 45, 48, 49, 84, 48, 48, 58, 48, 48, 58, 48, 48, 90>>,
     <<50, 48, 50, 52, 45, 48, 49, 45, 48, 49, 84, 48, 48, 58, 48, 48, 58, 48, 49, 90>>}

SignNonces == {Uuid(1), Uuid(2)}

\* Insertion orders of the ten items: that of the dict literal, its
\* reverse, and a rotation.
LiteralOrder == [i \in 1..10 |-> i]
InsertionOrders == {LiteralOrder,
                    [i \in 1..10 |-> 11 - i],
                    [i \in 1..10 |-> ((i + 2) % 10) + 1]}

InOrder(items, order) == [i \in 1..Len(items) |-> items[order[i]]]

\* Lines 60-71
SignStart(segment, timestamp, nonce, order) ==
    /\ signer.pc \in {"idle", "posted", "failed"}
    /\ signer' = [NoSigner EXCEPT
                    !.pc = "built",
                    !.segment = segment,
                    !.timestamp = timestamp,
                    !.nonce = nonce,
                    !.order = order,
                    !.params = InOrder(params_a(self, segment, timestamp, nonce), order)]
    /\ UNCHANGED <<self, calls, mainvars>>

\* Line 73
SignSort ==
    /\ signer.pc = "built"
    /\ signer' = [signer EXCEPT !.pc = "sorted",
                                !.sorted = sorted_params(signer.params)]
    /\ UNCHANGED <<self, calls, mainvars>>

\* Lines 78-79
SignCanonical ==
    /\ signer.pc = "sorted"
    /\ signer' = [signer EXCEPT !.pc = "canonical",
                                !.query = canonicalized_query(signer.sorted)]
    /\ UNCHANGED <<self, calls, mainvars>>

\* Lines 80-88; line 81 raises for a secret that is not a str, and the
\* handler of line 109 ends the check.
SignCompute ==
    /\ signer.pc = "canonical"
    /\ signer' =
          IF ~CanConcat(self.access_key_secret)
          THEN [signer EXCEPT !.pc = "failed"]
          ELSE [signer EXCEPT
                  !.pc = "signed",
                  !.signature = SignatureOf(SigningKey(self.access_key_secret.str),
                                            string_to_sign(signer.query))]
    /\ UNCHANGED <<self, calls, mainvars>>

\* Line 90
SignAdd ==
    /\ signer.pc = "signed"
    /\ signer' = [signer EXCEPT !.pc = "ready",
                                !.params = with_signature(signer.params, signer.signature)]
    /\ UNCHANGED <<self, calls, mainvars>>

\* Lines 92-93: session.post(self.endpoint, params=params_a)
SignPost ==
    /\ signer.pc = "ready"
    /\ signer' = [signer EXCEPT !.pc = "posted", !.posted = signer.params]
    /\ UNCHANGED <<self, calls, mainvars>>

InitSign ==
    /\ self \in SignConfigs
    /\ hook = "none"
    /\ hookpc = "idle"
    /\ event = NoEvent
    /\ emitted = <<>>
    /\ completion_text = PyNone
    /\ response0 = PyNone
    /\ pc = "idle"
    /\ content = <<>>
    /\ chunks = <<>>
    /\ tasks = <<>>
    /\ requests = <<>>
    /\ returned = FALSE
    /\ raised = FALSE
    /\ result = FALSE
    /\ signer = NoSigner
    /\ calls = NoCalls

NextSign ==
    \/ \E segment \in SignTexts : \E timestamp \in SignTimestamps :
         \E nonce \in SignNonces : \E order \in InsertionOrders :
            SignStart(segment, timestamp, nonce, order)
    \/ SignSort
    \/ SignCanonical
    \/ SignCompute
    \/ SignAdd
    \/ SignPost

SpecSign == InitSign /\ [][NextSign]_vars

(***************************************************************************)
(* Two _check_text calls in flight at once: call 1 is made by input_censor *)
(* for one event, call 2 by output_censor for another.  Each call has its  *)
(* own locals (content, chunks, tasks, results); self is all they share.   *)
(***************************************************************************)
CallIds == {1, 2}

NoCall ==
    [pc |-> "idle", content |-> <<>>, tasks |-> <<>>, requests |-> <<>>,
     returned |-> FALSE, result |-> FALSE]

ConcConfigs == [input_active : {TRUE}, output_active : {TRUE},
                endpoint : {Str(<<104, 116, 116, 112>>)},
                access_key_id : {Str(<<105, 100>>)},
                access_key_secret : Secrets]

\* The texts of the two events: empty, one segment, or two.
ConcTexts(c) ==
    IF c = 1 THEN {<<>>, <<97>>, TextOfLen(SingleLimit + 1)}
    ELSE {<<98>>, [i \in 1..(SingleLimit + 1) |-> 65 + (i % 26)]}

\* An allowing response, a blocking one, a transport error.
ConcOutcomes ==
    {Response(HttpOk, AllowBody),
     Response(HttpOk, Body("object", {"Data"}, DataObject({"RiskLevel"}, Str(HighLevel)))),
     Error("ClientError")}

\* The flag the hook of call c tests (lines 34, 43)
HookEnabled(me, c) == IF c = 1 THEN InputEnabled(me) ELSE OutputEnabled(me)

\* Faulty variant of CallVerdicts: the verdicts are gathered in one list
\* that the calls share.
CallVerdicts_Shared(cs, c) ==
    LET all == [d \in CallIds |-> [i \in DOMAIN cs[d].tasks |-> cs[d].tasks[i].verdict]]
    IN  all[1] \o all[2]
\* results (line 124): the verdicts of the coroutines of this call
CallVerdicts(cs, c) == [i \in DOMAIN cs[c].tasks |-> cs[c].tasks[i].verdict]

\* Lines 37, 45: the hook of call c calls _check_text(text).
CallEnter(c, text) ==
    /\ calls[c].pc = "idle"
    /\ HookEnabled(self, c)
    /\ calls' = [calls EXCEPT ![c] = [NoCall EXCEPT !.pc = "start", !.content = text]]
    /\ UNCHANGED <<self, signer, mainvars>>

\* Lines 116-123
CallStart(c) ==
    /\ calls[c].pc = "start"
    /\ LET call == calls[c]
           chs == _split_text(call.content)
       IN  calls' = [calls EXCEPT ![c] =
              IF Falsy(call.content)
              THEN [call EXCEPT !.pc = "done", !.returned = TRUE,
                                !.result = CheckTextHandler(Return(TRUE)).val]
              ELSE IF Len(call.content) <= SingleLimit
              THEN [call EXCEPT !.pc = "single", !.tasks = <<NewTask(call.content)>>]
              ELSE [call EXCEPT !.pc = "gather",
                                !.tasks = [k \in 1..Len(chs) |-> NewTask(chs[k])]]]
    /\ UNCHANGED <<self, signer, mainvars>>

\* Lines 59-93 for segment i of call c
CallSignAndPost(c, i) ==
    /\ calls[c].pc \in {"single", "gather"}
    /\ i \in DOMAIN calls[c].tasks
    /\ calls[c].tasks[i].pc = "created"
    /\ MayStart(calls[c].tasks, i)
    /\ \E timestamp \in Timestamps :
         LET nonce == Uuid(2 * (c - 1) + i)
             params == params_a(self, calls[c].tasks[i].content, timestamp, nonce)
         IN  calls' = [calls EXCEPT ![c] =
                IF ~CanConcat(self.access_key_secret)
                THEN [@ EXCEPT !.tasks[i] =
                        Finish(@, Error("TypeError"), SingleHandlers(Raise("TypeError")))]
                ELSE [@ EXCEPT
                        !.requests = Append(@,
                            [task |-> i,
                             endpoint |-> self.endpoint,
                             params |-> with_signature(params,
                                 Signature(self.access_key_secret.str, params))]),
                        !.tasks[i].pc = "posted"]]
    /\ UNCHANGED <<self, signer, mainvars>>

\* Lines 93-111 for segment i of call c
CallRespond(c, i, o) ==
    /\ calls[c].pc \in {"single", "gather"}
    /\ i \in DOMAIN calls[c].tasks
    /\ calls[c].tasks[i].pc = "posted"
    /\ calls' = [calls EXCEPT ![c].tasks[i] =
                    Finish(@, o, SingleHandlers(ResponseBody(o)))]
    /\ UNCHANGED <<self, signer, mainvars>>

\* Lines 120, 124-127 for call c
CallReturn(c) ==
    /\ \/ calls[c].pc = "single" /\ SingleReady(calls[c].tasks)
       \/ calls[c].pc = "gather" /\ GatherReady(calls[c].tasks)
    /\ LET r == CheckTextHandler(
                  IF \E i \in DOMAIN calls[c].tasks : calls[c].tasks[i].pc = "raised"
                  THEN Raise("Exception")
                  ELSE IF calls[c].pc = "single"
                  THEN Return(calls[c].tasks[1].verdict)
                  ELSE Return(All(CallVerdicts(calls, c))))
       IN  calls' = [calls EXCEPT ![c] =
                        [@ EXCEPT !.pc = "done",
                                  !.returned = (r.tag = "return"),
                                  !.result = r.val]]
    /\ UNCHANGED <<self, signer, mainvars>>

\* The hook of call c has ended; the locals of the call are gone.
CallLeave(c) ==
    /\ calls[c].pc = "done"
    /\ calls' = [calls EXCEPT ![c] = NoCall]
    /\ UNCHANGED <<self, signer, mainvars>>

InitConc ==
    /\ self \in ConcConfigs
    /\ hook = "none"
    /\ hookpc = "idle"
    /\ event = NoEvent
    /\ emitted = <<>>
    /\ completion_text = PyNone
    /\ response0 = PyNone
    /\ pc = "idle"
    /\ content = <<>>
    /\ chunks = <<>>
    /\ tasks = <<>>
    /\ requests = <<>>
    /\ returned = FALSE
    /\ raised = FALSE
    /\ result = FALSE
    /\ signer = NoSigner
    /\ calls = [c \in CallIds |-> NoCall]

NextConc ==
    \/ \E c \in CallIds : \E text \in ConcTexts(c) : CallEnter(c, text)
    \/ \E c \in CallIds : CallStart(c)
    \/ \E c \in CallIds : \E i \in 1..Len(calls[c].tasks) : CallSignAndPost(c, i)
    \/ \E c \in CallIds : \E i \in 1..Len(calls[c].tasks) :
          \E o \in ConcOutcomes : CallRespond(c, i, o)
    \/ \E c \in CallIds : CallReturn(c)
    \/ \E c \in CallIds : CallLeave(c)

SpecConc == InitConc /\ [][NextConc]_vars

(***************************************************************************)
(* Reference definitions used by the properties: they describe requests,   *)
(* responses and segments without using the operators of the program.      *)
(***************************************************************************)
\* Every spelling of "high" in upper and lower case letters.
HighVariants ==
    {<<a, b, c, d>> : a \in {104, 72}, b \in {105, 73}, c \in {103, 71}, d \in {104, 72}}

\* The response is a 200 whose body is a JSON object with a "Data" member.
HasEnvelope(o) ==
    /\ o.kind = "response"
    /\ o.status = 200
    /\ o.body.json = "object"
    /\ "Data" \in o.body.keys

\* "Data" is an object whose "RiskLevel" is absent or a string.
WellFormedData(o) ==
    /\ o.body.Data.kind = "object"
    /\ \/ "RiskLevel" \notin o.body.Data.keys
       \/ o.body.Data.RiskLevel.kind = "str"

\* "RiskLevel" is present and spells "high" in some letter case.
RiskIsHigh(o) ==
    /\ o.body.Data.kind = "object"
    /\ "RiskLevel" \in o.body.Data.keys
    /\ o.body.Data.RiskLevel.kind = "str"
    /\ o.body.Data.RiskLevel.str \in HighVariants

\* The five classes of outcome of a segment check.
OutcomeAllows(o) == HasEnvelope(o) /\ WellFormedData(o) /\ ~RiskIsHigh(o)
OutcomeBlocks(o) == HasEnvelope(o) /\ RiskIsHigh(o)
OutcomeIsProtocolError(o) == o.kind = "response" /\ ~HasEnvelope(o)
OutcomeIsTransportError(o) == o.kind = "error" /\ o.exc = "ClientError"
OutcomeIsUnexpected(o) ==
    \/ o.kind = "error" /\ o.exc # "ClientError"
    \/ HasEnvelope(o) /\ ~WellFormedData(o)
OutcomeIsError(o) ==
    OutcomeIsProtocolError(o) \/ OutcomeIsTransportError(o) \/ OutcomeIsUnexpected(o)

\* The number of segments of a text of n characters.
NumSegments(n) ==
    IF n = 0 THEN 0
    ELSE IF n % 600 = 0 THEN n \div 600 ELSE (n \div 600) + 1

RECURSIVE Concat(_)
Concat(ss) == IF ss = <<>> THEN <<>> ELSE Head(ss) \o Concat(Tail(ss))

\* The value of parameter key in a request, <<-1>> when it has none.
ParamOf(req, key) ==
    IF \E i \in 1..Len(req.params) : req.params[i][1] = key
    THEN PyStr(req.params[CHOOSE i \in 1..Len(req.params) : req.params[i][1] = key][2])
    ELSE <<-1>>

HexDigit(c) ==
    IF c >= 48 /\ c <= 57 THEN c - 48
    ELSE IF c >= 97 /\ c <= 102 THEN c - 87
    ELSE IF c >= 65 /\ c <= 70 THEN c - 55
    ELSE -1

\* The text of a JSON string body (without its quotes); <<-1>> marks a body
\* that is not JSON.
RECURSIVE JsonUnescape(_)
JsonUnescape(s) ==
    IF s = <<>> THEN <<>>
    ELSE IF s[1] = 34 \/ s[1] < 32 THEN <<-1>>
    ELSE IF s[1] # 92 THEN <<s[1]>> \o JsonUnescape(Tail(s))
    ELSE IF Len(s) < 2 THEN <<-1>>
    ELSE IF s[2] \in {34, 92, 47} THEN <<s[2]>> \o JsonUnescape(SubSeq(s, 3, Len(s)))
    ELSE IF s[2] = 110 THEN <<10>> \o JsonUnescape(SubSeq(s, 3, Len(s)))
    ELSE IF s[2] = 114 THEN <<13>> \o JsonUnescape(SubSeq(s, 3, Len(s)))
    ELSE IF s[2] = 116 THEN <<9>> \o JsonUnescape(SubSeq(s, 3, Len(s)))
    ELSE IF s[2] = 102 THEN <<12>> \o JsonUnescape(SubSeq(s, 3, Len(s)))
    ELSE IF s[2] = 98 THEN <<8>> \o JsonUnescape(SubSeq(s, 3, Len(s)))
    ELSE IF s[2] = 117 /\ Len(s) >= 6 /\ \A k \in 3..6 : HexDigit(s[k]) >= 0
         THEN <<4096 * HexDigit(s[3]) + 256 * HexDigit(s[4])
                  + 16 * HexDigit(s[5]) + HexDigit(s[6])>>
                \o JsonUnescape(SubSeq(s, 7, Len(s)))
    ELSE <<-1>>

\* The "content" member of the ServiceParameters a request carries.
RequestContent(req) ==
    LET sp == ParamOf(req, K_ServiceParameters)
        inner == SubSeq(sp, 14, Len(sp) - 2)
    IN  IF \/ Len(sp) < 15
           \/ SubSeq(sp, 1, 13) # <<123, 34, 99, 111, 110, 116, 101, 110, 116, 34, 58, 32, 34>>
           \/ SubSeq(sp, Len(sp) - 1, Len(sp)) # <<34, 125>>
        THEN <<-1>>
        ELSE IF \A i \in 1..Len(inner) : inner[i] \notin {34, 92} /\ inner[i] >= 32
        THEN inner
        ELSE JsonUnescape(inner)

\* The request has the ten signed parameters and, after them, a Signature.
IsSigned(req) ==
    /\ Len(req.params) = 11
    /\ req.params[11][1] = K_Signature
    /\ req.params[11][2].kind = "str"
    /\ \A i \in 1..10 : req.params[i][1] # K_Signature

SecretIsStr == self.access_key_secret.kind = "str"

(***************************************************************************)
(* C1: when _check_text has ended, it has returned true if and only if     *)
(* every segment of the text resolved to an allow verdict; one blocked or  *)
(* errored segment makes the verdict false.                                *)
(***************************************************************************)
C1_VerdictIsConjunction ==
    pc = "done" =>
        /\ returned
        /\ Len(tasks) = NumSegments(Len(content))
        /\ result <=> \A i \in DOMAIN tasks : OutcomeAllows(tasks[i].outcome)

C1_Witness ==
    /\ pc = "done"
    /\ Len(tasks) = 3
    /\ OutcomeAllows(tasks[1].outcome)
    /\ OutcomeBlocks(tasks[2].outcome)
    /\ OutcomeAllows(tasks[3].outcome)
    /\ ~result

(***************************************************************************)
(* C2: _check_text never raises: no exception leaves a segment check or    *)
(* the call, the call ends by returning a boolean, and whenever a segment  *)
(* ended with an error the returned value is false.                        *)
(***************************************************************************)
C2_NeverRaises ==
    /\ ~raised
    /\ \A i \in DOMAIN tasks : tasks[i].pc # "raised"
    /\ pc = "done" =>
          /\ returned
          /\ result \in BOOLEAN
          /\ (\E i \in DOMAIN tasks : OutcomeIsError(tasks[i].outcome)) => ~result

C2_Witness ==
    /\ pc = "done"
    /\ returned
    /\ ~result
    /\ Len(tasks) = 1
    /\ tasks[1].outcome = Error("Exception")

(***************************************************************************)
(* C3: a _check_text call on the empty text makes no segment check and no  *)
(* request at any point, and returns true.                                 *)
(***************************************************************************)
C3_EmptyText ==
    (pc # "idle" /\ content = <<>>) =>
        /\ tasks = <<>>
        /\ requests = <<>>
        /\ pc = "done" => (returned /\ result)

C3_Witness ==
    /\ hook = "input"
    /\ pc = "done"
    /\ content = <<>>
    /\ returned
    /\ result
    /\ requests = <<>>

(***************************************************************************)
(* C4 as stated: a call on a text of at most 600 characters has issued     *)
(* exactly one signed request when it ends, carrying the text.             *)
(***************************************************************************)
C4_ExactlyOneRequest ==
    (pc = "done" /\ Len(content) <= 600) =>
        /\ Len(requests) = 1
        /\ IsSigned(requests[1])
        /\ RequestContent(requests[1]) = content

(***************************************************************************)
(* C4 amended: a call on a text of at most 600 characters issues at most   *)
(* one request, every request it issues is signed and carries the text,    *)
(* and when it ends it has issued exactly one if the text is not empty and *)
(* the access key secret is a str, and none otherwise.                     *)
(***************************************************************************)
C4_OneRequestIfSigned ==
    (pc # "idle" /\ Len(content) <= 600) =>
        /\ Len(requests) <= 1
        /\ \A k \in DOMAIN requests :
              IsSigned(requests[k]) /\ RequestContent(requests[k]) = content
        /\ pc = "done" =>
              Len(requests) = IF content # <<>> /\ SecretIsStr THEN 1 ELSE 0

C4_Witness ==
    /\ pc = "done"
    /\ Len(content) = 600
    /\ Len(requests) = 1
    /\ RequestContent(requests[1]) = content

(***************************************************************************)
(* The segments of a text longer than 600 characters: ceil(L/600) of them, *)
(* at most 600 characters each, exactly 600 but for the last, and their    *)
(* concatenation is the text.                                              *)
(***************************************************************************)
SplitIsExact ==
    /\ Len(chunks) = NumSegments(Len(content))
    /\ \A k \in DOMAIN chunks :
          /\ Len(chunks[k]) <= 600
          /\ Len(chunks[k]) >= 1
          /\ k < Len(chunks) => Len(chunks[k]) = 600
    /\ Concat(chunks) = content

(***************************************************************************)
(* C5 as stated: the split of a text longer than 600 characters is exact,  *)
(* and the call has dispatched one request per segment when it ends.       *)
(***************************************************************************)
C5_OneRequestPerSegment ==
    (pc \in {"gather", "done"} /\ Len(content) > 600) =>
        /\ SplitIsExact
        /\ pc = "done" =>
              /\ Len(requests) = Len(chunks)
              /\ \A k \in DOMAIN requests :
                    RequestContent(requests[k]) = chunks[requests[k].task]
              /\ \A k \in DOMAIN chunks : \E j \in DOMAIN requests : requests[j].task = k

(***************************************************************************)
(* C5 amended: the split of a text longer than 600 characters is exact;    *)
(* the call makes one segment check per segment, each check issues at most *)
(* one request, which carries its own segment; when the call ends, every   *)
(* segment has its request if the access key secret is a str, and no       *)
(* request was issued otherwise.                                           *)
(***************************************************************************)
C5_SplitAndDispatch ==
    (pc \in {"gather", "done"} /\ Len(content) > 600) =>
        /\ SplitIsExact
        /\ Len(tasks) = Len(chunks)
        /\ \A k \in DOMAIN tasks : tasks[k].content = chunks[k]
        /\ \A j, k \in DOMAIN requests : requests[j].task = requests[k].task => j = k
        /\ \A k \in DOMAIN requests : requests[k].task \in DOMAIN chunks
        /\ pc = "done" =>
              /\ \A k \in DOMAIN requests :
                    RequestContent(requests[k]) = chunks[requests[k].task]
              /\ Len(requests) = IF SecretIsStr THEN Len(chunks) ELSE 0

C5_Witness ==
    /\ pc = "done"
    /\ Len(content) = MaxLen
    /\ Len(chunks) = 3
    /\ Len(chunks[3]) < 600
    /\ Len(requests) = 3

(***************************************************************************)
(* C6 as stated: a segment whose response is a 200 with the Data envelope  *)
(* resolves to false exactly when RiskLevel spells "high" in some letter   *)
(* case, and to true in every other case.                                  *)
(***************************************************************************)
C6_FalseOnlyOnHigh ==
    \A i \in DOMAIN tasks :
        (tasks[i].pc = "done" /\ HasEnvelope(tasks[i].outcome)) =>
            (tasks[i].verdict <=> ~RiskIsHigh(tasks[i].outcome))

(***************************************************************************)
(* C6 amended: a segment whose response is a 200 with the Data envelope    *)
(* resolves to false exactly when RiskLevel spells "high" in some letter   *)
(* case, or Data is not an object, or RiskLevel is present and not a       *)
(* string; it resolves to true when Data is an object whose RiskLevel is   *)
(* absent or a string other than "high".                                   *)
(***************************************************************************)
C6_RiskLevelVerdict ==
    \A i \in DOMAIN tasks :
        (tasks[i].pc = "done" /\ HasEnvelope(tasks[i].outcome)) =>
            (tasks[i].verdict <=>
                (WellFormedData(tasks[i].outcome) /\ ~RiskIsHigh(tasks[i].outcome)))

C6_Witness ==
    /\ Len(tasks) = 1
    /\ tasks[1].pc = "done"
    /\ HasEnvelope(tasks[1].outcome)
    /\ WellFormedData(tasks[1].outcome)
    /\ tasks[1].outcome.body.Data.RiskLevel = Str(<<72, 105, 103, 104>>)
    /\ ~tasks[1].verdict

(***************************************************************************)
(* C7: a segment whose response has a status other than 200, or a status   *)
(* of 200 and a body without the Data member, resolves to false whatever   *)
(* else the response holds, and the verdict of its text is false.          *)
(***************************************************************************)
C7_ProtocolErrorBlocks ==
    \A i \in DOMAIN tasks :
        (tasks[i].pc = "done" /\ OutcomeIsProtocolError(tasks[i].outcome)) =>
            /\ ~tasks[i].verdict
            /\ pc = "done" => (returned /\ ~result)

C7_Witness ==
    /\ pc = "done"
    /\ returned
    /\ ~result
    /\ Len(tasks) = 3
    /\ OutcomeAllows(tasks[1].outcome)
    /\ tasks[2].outcome = Response(500, AllowBody)
    /\ OutcomeAllows(tasks[3].outcome)

(***************************************************************************)
(* C8: when _check_text has ended on a text of several segments, every     *)
(* segment check of the text has resolved with an outcome of its own: no   *)
(* request is outstanding, and no check was given up because another       *)
(* segment had resolved to false.                                          *)
(***************************************************************************)
C8_WaitsForAll ==
    (pc = "done" /\ Len(content) > 600) =>
        /\ Len(tasks) = NumSegments(Len(content))
        /\ \A i \in DOMAIN tasks :
              /\ tasks[i].pc = "done"
              /\ tasks[i].outcome.kind \in {"response", "error"}

C8_Witness ==
    /\ pc = "done"
    /\ returned
    /\ Len(tasks) = 3
    /\ OutcomeBlocks(tasks[1].outcome)
    /\ ~tasks[1].verdict
    /\ tasks[2].pc = "done" /\ tasks[2].verdict
    /\ tasks[3].pc = "done" /\ tasks[3].verdict

C10_OutputReplaced ==
    hook = "output" =>
        completion_text =
            IF hookpc = "done" /\ self.output_active /\ returned /\ ~result
            THEN Str(OutputRejection)
            ELSE response0

C10_Witness ==
    /\ hook = "output"
    /\ hookpc = "done"
    /\ self.output_active
    /\ returned
    /\ ~result
    /\ response0 # Str(OutputRejection)
    /\ completion_text = Str(OutputRejection)

(***************************************************************************)
(* C11 as stated: with the input flag off input_censor makes no check, no  *)
(* request and yields nothing, whatever the output flag is; with the       *)
(* output flag off output_censor makes no check, no request and changes    *)
(* nothing, whatever the input flag is; with its flag on, a hook checks    *)
(* every text it is delivered.                                             *)
(***************************************************************************)
C11_FlagOnChecksEveryText ==
    /\ (hook = "input" /\ ~self.input_active) =>
          (pc = "idle" /\ tasks = <<>> /\ requests = <<>> /\ emitted = <<>>)
    /\ (hook = "output" /\ ~self.output_active) =>
          (pc = "idle" /\ tasks = <<>> /\ requests = <<>>
             /\ completion_text = response0)
    /\ (hook = "input" /\ self.input_active) =>
          (pc # "idle" /\ content = PyStr(event.message_str))
    /\ (hook = "output" /\ self.output_active) =>
          (pc # "idle" /\ content = PyStr(response0))

(***************************************************************************)
(* C11 amended: as stated for the flags that are off and for the output    *)
(* flag that is on; with the input flag on, input_censor checks the text   *)
(* of exactly the events that are an at-mention or a wake command, and     *)
(* makes no check and no request for the others.                           *)
(***************************************************************************)
C11_FlagsIndependent ==
    /\ (hook = "input" /\ ~self.input_active) =>
          (pc = "idle" /\ tasks = <<>> /\ requests = <<>> /\ emitted = <<>>)
    /\ (hook = "output" /\ ~self.output_active) =>
          (pc = "idle" /\ tasks = <<>> /\ requests = <<>>
             /\ completion_text = response0)
    /\ (hook = "input" /\ self.input_active) =>
          IF event.is_at_or_wake_command
          THEN pc # "idle" /\ content = PyStr(event.message_str)
          ELSE pc = "idle" /\ tasks = <<>> /\ requests = <<>> /\ emitted = <<>>
    /\ (hook = "output" /\ self.output_active) =>
          (pc # "idle" /\ content = PyStr(response0))

C11_Witness ==
    /\ hook = "input"
    /\ hookpc = "done"
    /\ ~self.input_active
    /\ self.output_active
    /\ event.is_at_or_wake_command
    /\ Len(event.message_str.str) = MaxLen
    /\ pc = "idle"
    /\ requests = <<>>
    /\ emitted = <<>>


(***************************************************************************)
(* Reference signature, written from the signing scheme and not from the   *)
(* code: the ten names in ascending byte order, RFC 3986 percent-encoding  *)
(* of names and values, the key  secret + "&".                             *)
(***************************************************************************)
RefNames ==
    <<K_AccessKeyId, K_Action, K_Format, K_Service, K_ServiceParameters,
      K_SignatureMethod, K_SignatureNonce, K_SignatureVersion, K_Timestamp,
      K_Version>>

RefValue(name, me, segment, timestamp, nonce) ==
    CASE name = K_AccessKeyId -> PyStr(me.access_key_id)
      [] name = K_Action -> V_Action
      [] name = K_Format -> V_Format
      [] name = K_Service -> V_Service
      [] name = K_ServiceParameters -> JsonDumpsContent(segment)
      [] name = K_SignatureMethod -> V_SignatureMethod
      [] name = K_SignatureNonce -> nonce
      [] name = K_SignatureVersion -> V_SignatureVersion
      [] name = K_Timestamp -> timestamp
      [] name = K_Version -> V_Version

RefPercentByte(b) == <<37, HexUpper[(b \div 16) + 1], HexUpper[(b % 16) + 1]>>

RefPercentChar(c) ==
    IF \/ c \in 48..57 \/ c \in 65..90 \/ c \in 97..122
       \/ c \in {45, 46, 95, 126}
    THEN <<c>>
    ELSE LET bs == Utf8Char(c)
         IN  Flatten([k \in 1..Len(bs) |-> RefPercentByte(bs[k])])

RefPercent(s) == Flatten([k \in 1..Len(s) |-> RefPercentChar(s[k])])

RefQuery(me, segment, timestamp, nonce) ==
    Flatten([k \in 1..Len(RefNames) |->
        (IF k = 1 THEN <<>> ELSE <<38>>)
          \o RefPercent(RefNames[k]) \o <<61>>
          \o RefPercent(RefValue(RefNames[k], me, segment, timestamp, nonce))])

\* "POST&%2F&" and the percent-encoded canonical query
RefStringToSign(me, segment, timestamp, nonce) ==
    <<80, 79, 83, 84, 38, 37, 50, 70, 38>>
      \o RefPercent(RefQuery(me, segment, timestamp, nonce))

RefSignature(me, segment, timestamp, nonce) ==
    Base64(HmacDigest(Utf8(me.access_key_secret.str \o <<38>>),
                      RefStringToSign(me, segment, timestamp, nonce)))

SignerHasSignature == signer.pc \in {"signed", "ready", "posted"}

\* C12: the Signature of a signing run is a function of the credentials, the
\* segment, the timestamp and the nonce alone (two runs with the same four
\* give the same value, whatever order the parameters were inserted in), and
\* it is base64(HMAC(access_key_secret + "&", string-to-sign)) as the
\* reference computes it.
C12_SignatureIsReference ==
    SignerHasSignature =>
        signer.signature = RefSignature(self, signer.segment, signer.timestamp, signer.nonce)

\* A signature was computed for a secret and a segment with characters the
\* encoding rewrites, from parameters not inserted in the literal's order.
C12_Witness ==
    /\ signer.pc = "posted"
    /\ self.access_key_secret = Str(<<115, 38, 107, 61, 233>>)
    /\ signer.segment = InputRejection
    /\ signer.order # LiteralOrder


\* Byte-wise order of two names, compared position by position.
RECURSIVE RefLess(_, _)
RefLess(a, b) ==
    IF b = <<>> THEN FALSE
    ELSE IF a = <<>> THEN TRUE
    ELSE IF a[1] # b[1] THEN a[1] < b[1]
    ELSE RefLess(Tail(a), Tail(b))

SignerHasQuery == signer.pc \in {"canonical", "signed", "ready", "posted", "failed"}

\* C13: the canonical query string of a signing run is made of the inserted
\* name/value pairs, all of them and no other, in ascending order of their
\* names, and is the same string for every order of insertion: the one a
\* reference that never sees the insertion order builds.
C13_CanonicalQuerySorted ==
    SignerHasQuery =>
        /\ Len(signer.sorted) = 10
        /\ \A i \in 1..9 : RefLess(signer.sorted[i][1], signer.sorted[i + 1][1])
        /\ {signer.sorted[i] : i \in 1..10}
             = {<<RefNames[k], IF RefNames[k] = K_AccessKeyId
                               THEN self.access_key_id
                               ELSE Str(RefValue(RefNames[k], self, signer.segment,
                                                 signer.timestamp, signer.nonce))>>
                  : k \in 1..10}
        /\ signer.query = RefQuery(self, signer.segment, signer.timestamp, signer.nonce)

\* A canonical query was built from parameters inserted in the reverse of
\* the literal's order, which is not the sorted order.
C13_Witness ==
    /\ signer.pc = "canonical"
    /\ signer.order = [i \in 1..10 |-> 11 - i]
    /\ signer.sorted # signer.params
    /\ signer.query # <<>>


ParamNames(params) == {params[i][1] : i \in 1..Len(params)}

\* The ten names that are signed.
SignedNames == {RefNames[k] : k \in 1..Len(RefNames)}

\* C16: until the Signature is computed the parameters are the ten signed
\* ones, with no Signature among them; the Signature is computed over exactly
\* these ten; it is then added as the eleventh and last parameter, the ten
\* before it being the pairs that were signed, unchanged; and the parameters
\* posted are these eleven.
C16_SignedThenSent ==
    /\ signer.pc \in {"built", "sorted", "canonical", "signed", "failed"} =>
          /\ Len(signer.params) = 10
          /\ ParamNames(signer.params) = SignedNames
          /\ signer.posted = <<>>
    /\ signer.pc \in {"built", "sorted", "canonical", "failed"} => signer.signature = <<>>
    /\ signer.pc \in {"signed", "ready", "posted"} =>
          /\ signer.signature # <<>>
          /\ {signer.sorted[i] : i \in 1..Len(signer.sorted)}
               = {signer.params[i] : i \in 1..10}
          /\ signer.signature
               = Base64(HmacDigest(Utf8(self.access_key_secret.str \o <<38>>),
                                   <<80, 79, 83, 84, 38, 37, 50, 70, 38>>
                                     \o RefPercent(canonicalized_query(signer.sorted))))
    /\ signer.pc \in {"ready", "posted"} =>
          /\ Len(signer.params) = 11
          /\ signer.params[11] = <<K_Signature, Str(signer.signature)>>
          /\ ParamNames(SubSeq(signer.params, 1, 10)) = SignedNames
          /\ SubSeq(signer.params, 1, 10)
               = InOrder(params_a(self, signer.segment, signer.timestamp, signer.nonce),
                         signer.order)
    /\ signer.pc = "ready" => signer.posted = <<>>
    /\ signer.pc = "posted" => signer.posted = signer.params

\* A request was posted with its eleven parameters.
C16_Witness ==
    /\ signer.pc = "posted"
    /\ Len(signer.posted) = 11
    /\ signer.posted[11][1] = K_Signature
    /\ signer.order = LiteralOrder


SignerAdvances ==
    /\ signer.pc = "built" => signer'.pc = "sorted"
    /\ signer.pc = "sorted" => signer'.pc = "canonical"
    /\ signer.pc = "canonical" =>
          signer'.pc = IF self.access_key_secret.kind = "str" THEN "signed" ELSE "failed"
    /\ signer.pc = "signed" => signer'.pc = "ready"
    /\ signer.pc = "ready" => signer'.pc = "posted" /\ signer'.posted # <<>>

Phase ==
    CASE pc = "idle" -> 0
      [] pc = "start" -> 1
      [] pc \in {"single", "gather"} ->
            IF \E i \in DOMAIN tasks : tasks[i].pc = "created" THEN 2 ELSE 3
      [] pc = "done" -> 4

TaskPhase(t) ==
    CASE t.pc = "created" -> 0
      [] t.pc = "posted" -> 1
      [] t.pc \in {"done", "raised"} -> 2

RequestsOf(reqs, i) == {k \in 1..Len(reqs) : reqs[k].task = i}

\* A step of the call the handler is awaiting.
CallAdvances ==
    hookpc = "awaiting" =>
        /\ Phase' >= Phase
        /\ content' = content
        /\ Len(tasks) > 0 =>
              /\ Len(tasks') = Len(tasks)
              /\ \A i \in DOMAIN tasks :
                    /\ tasks'[i].content = tasks[i].content
                    /\ TaskPhase(tasks'[i]) >= TaskPhase(tasks[i])
                    /\ tasks[i].pc # "created" =>
                          RequestsOf(requests', i) = RequestsOf(requests, i)
                    /\ tasks[i].pc \in {"done", "raised"} => tasks'[i] = tasks[i]
        /\ \/ requests' = requests
           \/ /\ Len(requests') = Len(requests) + 1
              /\ SubSeq(requests', 1, Len(requests)) = requests

\* C14: within one _check_text call the phase never goes back and the call
\* keeps its segments; a segment is sent at most once, a request being added
\* only for a segment not sent yet; a segment whose check has ended is not
\* touched again, and one that ended on an error has the verdict false.
C14_PhasesOnlyAdvance ==
    /\ [](\A i \in DOMAIN tasks :
             /\ Cardinality(RequestsOf(requests, i)) <= 1
             /\ tasks[i].pc = "created" => RequestsOf(requests, i) = {}
             /\ (tasks[i].pc = "done" /\ OutcomeIsError(tasks[i].outcome)) =>
                   ~tasks[i].verdict)
    /\ [](\A k \in 1..Len(requests) : requests[k].task \in DOMAIN tasks)
    /\ [][CallAdvances]_vars

\* A call of three segments is resolved: the second segment met a transport
\* error after its request, the others were allowed, and three requests were
\* made in all.
C14_Witness ==
    /\ pc = "done"
    /\ Len(tasks) = 3
    /\ OutcomeIsTransportError(tasks[2].outcome)
    /\ ~tasks[2].verdict
    /\ tasks[1].verdict /\ tasks[3].verdict
    /\ Len(requests) = 3
    /\ ~result


\* The first segment not sent yet, 0 when all have been sent.
NextToSend ==
    IF \E i \in DOMAIN tasks : tasks[i].pc = "created"
    THEN CHOOSE i \in DOMAIN tasks :
            /\ tasks[i].pc = "created"
            /\ \A j \in 1..(i - 1) : tasks[j].pc # "created"
    ELSE 0

\* C15: while a text of several segments is being checked, the next segment
\* to send can be sent at once, whether the requests sent before it have been
\* answered or not; and when the call has returned, its verdict is that of
\* the outcomes of the segments, whatever the order they came in.
C15_DispatchDoesNotWait ==
    /\ (pc = "gather" /\ NextToSend # 0) => CanStart(NextToSend)
    /\ (pc = "done" /\ Len(tasks) > 1) =>
          /\ returned
          /\ result = (\A i \in DOMAIN tasks : OutcomeAllows(tasks[i].outcome))

\* The requests of the three segments of a text are all outstanding.
C15_Witness ==
    /\ pc = "gather"
    /\ Len(tasks) = 3
    /\ \A i \in 1..3 : tasks[i].pc = "posted"
    /\ Len(requests) = 3


\* C18: a _check_text call that was entered returns, every request that was
\* posted being answered in the end; and it does not return before: the call
\* that has returned has no request outstanding and no segment unsent.
C18_CallReturns ==
    /\ (pc = "start") ~> (pc = "done" /\ returned)
    /\ [](pc = "done" => \A i \in DOMAIN tasks : tasks[i].pc \notin {"created", "posted"})

\* A call of three segments has returned, each of its requests answered.
C18_Witness ==
    /\ pc = "done"
    /\ returned
    /\ Len(tasks) = 3
    /\ Len(requests) = 3
    /\ \A i \in 1..3 : tasks[i].outcome.kind = "response"


\* The characters of the text of a call that make up its segment i.
OwnSegment(call, i) ==
    SubSeq(call.content, 600 * (i - 1) + 1,
           IF 600 * i <= Len(call.content) THEN 600 * i ELSE Len(call.content))

\* C19: with two calls in flight and their steps interleaved in every way,
\* the configuration fields keep the values of construction; every step
\* changes the locals of one call and of no other; every request of a call
\* carries the characters of its own segment of the text of that call; and
\* the verdict a call returns is the conjunction of the outcomes of its own
\* segments.
C19_NoSharedState ==
    /\ [](\A c \in CallIds : \A k \in 1..Len(calls[c].requests) :
             LET req == calls[c].requests[k]
             IN  /\ req.task \in DOMAIN calls[c].tasks
                 /\ RequestContent(req) = OwnSegment(calls[c], req.task)
                 /\ RequestContent(req) = calls[c].tasks[req.task].content)
    /\ [](\A c \in CallIds :
             calls[c].pc = "done" =>
                /\ calls[c].returned
                /\ calls[c].result =
                      (\A i \in DOMAIN calls[c].tasks :
                           OutcomeAllows(calls[c].tasks[i].outcome)))
    /\ [][/\ self' = self
          /\ \E c \in CallIds : \A d \in CallIds \ {c} : calls'[d] = calls[d]]_vars

\* The call of the input hook has returned true, both its segments allowed,
\* while the call of the output hook has one segment blocked and the request
\* of the other outstanding.
C19_Witness ==
    /\ calls[1].pc = "done"
    /\ calls[1].result
    /\ Len(calls[1].tasks) = 2
    /\ calls[2].pc = "gather"
    /\ calls[2].tasks[1].pc = "done"
    /\ ~calls[2].tasks[1].verdict
    /\ calls[2].tasks[2].pc = "posted"

====
